---- MODULE Spec2Model ----
(***************************************************************************)
(* A model of quiz_analysis.py: the module-level run (fetch, validate,     *)
(* load, analyze, insights, persona, plot, recommendations, print) and the *)
(* four analysis functions it calls.                                       *)
(*                                                                         *)
(* Numbers are exact rationals in lowest terms; a float NaN is the         *)
(* rational with denominator 0.  A DataFrame is a record of its column     *)
(* names and its rows, each row carrying its index label.  The pandas      *)
(* reductions follow pandas 1.x, the library version whose behaviour the   *)
(* script relies on (groupby(...).std() and .mean() drop the columns that  *)
(* are not numeric, idxmin of an all-NaN series is NaN).                   *)
(***************************************************************************)
EXTENDS Integers, Sequences, FiniteSets, TLC

VARIABLES pc, exception, remote, current_quiz_data, historical_quiz_data,
          current_df, historical_df, topic_stats, recent_trends,
          weak_topics, improvement_trends, student_persona,
          recommendations, log, executed

vars == <<pc, exception, remote, current_quiz_data, historical_quiz_data,
          current_df, historical_df, topic_stats, recent_trends,
          weak_topics, improvement_trends, student_persona,
          recommendations, log, executed>>

(***************************************************************************)
(* Bounds of the model.                                                    *)
(***************************************************************************)
\* rows of quiz_history served to a full run
MaxRows == 2
\* rows of the historical table handed to analyze_performance_data alone
MaxTrendRows == 6
\* rows of the weak-topics table handed to generate_recommendations alone
MaxWeak == 2

(***************************************************************************)
(* Floats.                                                                 *)
(***************************************************************************)
RECURSIVE GCD(_, _)
GCD(a, b) == IF b = 0 THEN a ELSE GCD(b, a % b)

Abs(n) == IF n < 0 THEN 0 - n ELSE n

\* the rational n/d in lowest terms, d > 0; d = 0 gives NaN
Rat(n, d) ==
    IF d = 0 THEN [num |-> 0, den |-> 0]
    ELSE LET g == GCD(Abs(n), Abs(d))
             s == IF d < 0 THEN 0 - 1 ELSE 1
         IN  [num |-> (s * n) \div g, den |-> (s * d) \div g]

NaN == Rat(0, 0)
isna(x) == x.den = 0
Tenths(k) == Rat(k, 10)

\* IEEE comparisons: every comparison with NaN is false
Lt(x, y) == ~isna(x) /\ ~isna(y) /\ x.num * y.den < y.num * x.den
Gt(x, y) == Lt(y, x)

Add(x, y) == IF isna(x) \/ isna(y) THEN NaN
             ELSE Rat(x.num * y.den + y.num * x.den, x.den * y.den)
Sub(x, y) == IF isna(x) \/ isna(y) THEN NaN
             ELSE Rat(x.num * y.den - y.num * x.den, x.den * y.den)
Mul(x, y) == IF isna(x) \/ isna(y) THEN NaN
             ELSE Rat(x.num * y.num, x.den * y.den)
DivInt(x, n) == IF isna(x) \/ n = 0 THEN NaN ELSE Rat(x.num, x.den * n)

Zero == Rat(0, 1)

RECURSIVE SumSeq(_)
SumSeq(s) == IF s = <<>> THEN Zero ELSE Add(Head(s), SumSeq(Tail(s)))

notna(x) == ~isna(x)

\* mean with skipna: the mean of the values that are not NaN, NaN if none
Mean(s) ==
    LET vals == SelectSeq(s, notna)
    IN  DivInt(SumSeq(vals), Len(vals))

\* The sample variance (ddof = 1) of the values that are not NaN, NaN when
\* fewer than two.  The standard deviation is its square root, so the order
\* and the ties of the deviations are those of the variances.
Var(s) ==
    LET vals == SelectSeq(s, notna)
        n    == Len(vals)
        sq   == [i \in 1..n |-> Mul(vals[i], vals[i])]
        tot  == SumSeq(vals)
    IN  IF n < 2 THEN NaN
        ELSE DivInt(Sub(SumSeq(sq), DivInt(Mul(tot, tot), n)), n - 1)

Digit(d) == ToString(d)

\* format(x, ".2f"): x rounded to hundredths (an exact tie goes to the even
\* hundredth), "nan" for NaN
Format2f(x) ==
    IF isna(x) THEN "nan"
    ELSE LET n == x.num * 100
             q == n \div x.den
             r == n % x.den
             h == IF 2 * r > x.den THEN q + 1
                  ELSE IF 2 * r = x.den THEN q + (q % 2)
                  ELSE q
         IN  ToString(h \div 100) \o "." \o Digit((h % 100) \div 10)
                 \o Digit(h % 10)

(***************************************************************************)
(* Values of the submission records.                                       *)
(***************************************************************************)
\* Python's None (a JSON null); no input string equals it
None == "None"

\* all topic labels, in the order Python compares the strings
TopicSeq == <<"A", "B">>
Topics == {TopicSeq[i] : i \in 1..Len(TopicSeq)}
TopicRank(t) == CHOOSE i \in 1..Len(TopicSeq) : TopicSeq[i] = t

\* the submission_time strings, in the order Python compares the strings:
\* "2024-1-10" < "2024-1-9" < "n/a"
TimeSeq == <<"2024-1-10", "2024-1-9", "n/a">>
TimeStrings == {TimeSeq[i] : i \in 1..Len(TimeSeq)}
StrRank(s) == CHOOSE i \in 1..Len(TimeSeq) : TimeSeq[i] = s

\* a parsed submission_time as pandas shows it; NaT is the null timestamp
NaT == "NaT"
Timestamp(d) == IF d = 9 THEN "2024-01-09 00:00:00" ELSE "2024-01-10 00:00:00"
Valid(ts) == ts # NaT
Day(ts) == IF ts = "2024-01-09 00:00:00" THEN 9 ELSE 10

\* pd.to_datetime(value, errors='coerce') of one value: the day of January
\* 2024 the string names, NaT for None and for a string that is no date
to_datetime(s) ==
    CASE s = "2024-1-10" -> Timestamp(10)
      [] s = "2024-1-9"  -> Timestamp(9)
      [] OTHER           -> NaT

(***************************************************************************)
(* DataFrames.                                                             *)
(***************************************************************************)
DataFrame(cols, rows) == [columns |-> cols, rows |-> rows]

\* pd.DataFrame()
EmptyFrame == DataFrame({}, <<>>)

\* DataFrame.empty: some axis has length 0
empty(df) == df.columns = {} \/ Len(df.rows) = 0

Range(s) == {s[i] : i \in 1..Len(s)}

\* pd.DataFrame(records): one row per record, labelled 0..n-1, the columns
\* the keys of the records (the records of one payload share their keys)
FrameOfRecords(recs) ==
    DataFrame(UNION {DOMAIN recs[i] : i \in 1..Len(recs)},
              [i \in 1..Len(recs) |->
                  [c \in DOMAIN recs[i] \cup {"index"} |->
                      IF c = "index" THEN i - 1 ELSE recs[i][c]]])

Column(df, c) == [i \in 1..Len(df.rows) |-> df.rows[i][c]]

\* the group keys of groupby('topic'): the distinct topics that are not
\* null, sorted
GroupKeys(df) ==
    SelectSeq(TopicSeq, LAMBDA t : \E i \in 1..Len(df.rows) : df.rows[i]["topic"] = t)

\* the values of column c in the rows of topic t, in row order
GroupValues(df, t, c) ==
    LET rows == SelectSeq(df.rows, LAMBDA r : r["topic"] = t)
    IN  [i \in 1..Len(rows) |-> rows[i][c]]

(***************************************************************************)
(* Step 1: fetch and validate.                                             *)
(***************************************************************************)
CURRENT_KEY == "quiz_submissions"
HISTORICAL_KEY == "quiz_history"

\* what fetch_quiz_data returns: the parsed JSON document, or None
NoneData == [is_none |-> TRUE, body |-> <<>>]
Dict(doc) == [is_none |-> FALSE, body |-> doc]

\* fetch_quiz_data(endpoint): the served document on status 200, None (after
\* a printed message) on any other status and on an exception
fetch_quiz_data(doc, ok) ==
    IF ok THEN [value |-> Dict(doc), log |-> <<>>]
    ELSE [value |-> NoneData, log |-> <<"Error: Unable to fetch data.">>]

\* the line validate_quiz_data prints for one key of a dict
ValidateKey(body, key) ==
    IF key \notin DOMAIN body \/ body[key] = <<>>
    THEN "Warning: Missing or empty key - " \o key
    ELSE "Key '" \o key \o "' is valid."

\* validate_quiz_data(data, expected_keys): `key not in data` raises
\* TypeError when data is None
validate_quiz_data(data, expected_keys) ==
    IF expected_keys # <<>> /\ data.is_none
    THEN [raised |-> "TypeError", log |-> <<>>]
    ELSE [raised |-> "",
          log |-> [i \in 1..Len(expected_keys) |->
                      ValidateKey(data.body, expected_keys[i])]]

\* pd.DataFrame(data.get(key, [])): `.get` raises AttributeError on None
LoadFrame(data, key) ==
    IF data.is_none THEN [raised |-> "AttributeError", frame |-> EmptyFrame]
    ELSE [raised |-> "",
          frame |-> FrameOfRecords(IF key \in DOMAIN data.body
                                   THEN data.body[key] ELSE <<>>)]

(***************************************************************************)
(* Step 2: analyze_performance_data.                                       *)
(***************************************************************************)
\* the required columns with 'score' forgotten
required_cols_no_score == {"topic", "accuracy", "difficulty", "submission_time"}

required_cols == {"topic", "accuracy", "difficulty", "score", "submission_time"}

\* the rows of head(5)
HeadRows == 5

Reverse(s) == [i \in 1..Len(s) |-> s[Len(s) + 1 - i]]

RECURSIVE Insert(_, _, _)
Insert(sorted, i, key) ==
    IF sorted = <<>> THEN <<i>>
    ELSE IF key[Head(sorted)] <= key[i]
         THEN <<Head(sorted)>> \o Insert(Tail(sorted), i, key)
         ELSE <<i>> \o sorted

\* numpy's argsort of a short array (an insertion sort below 17 values):
\* the positions of key in ascending key order, equal keys in position order
RECURSIVE ArgSort(_, _)
ArgSort(key, n) == IF n = 0 THEN <<>> ELSE Insert(ArgSort(key, n - 1), n, key)

\* pandas' nargsort(values, ascending=False, na_position='last'): the values
\* that are not null are reversed, argsorted ascending and reversed again;
\* the nulls follow in their own order
nargsort_desc(values) ==
    LET idx     == [i \in 1..Len(values) |-> i]
        non_nan == Reverse(SelectSeq(idx, LAMBDA i : values[i] # None))
        nan_idx == SelectSeq(idx, LAMBDA i : values[i] = None)
        key     == [j \in 1..Len(non_nan) |-> StrRank(values[non_nan[j]])]
        order   == ArgSort(key, Len(key))
    IN  Reverse([j \in 1..Len(order) |-> non_nan[order[j]]]) \o nan_idx

\* df.sort_values(by='submission_time', ascending=False): a new frame, the
\* rows ordered by the raw column values
sort_values(df) ==
    LET indexer == nargsort_desc(Column(df, "submission_time"))
    IN  DataFrame(df.columns, [i \in 1..Len(indexer) |-> df.rows[indexer[i]]])

head(df, n) ==
    DataFrame(df.columns,
              SubSeq(df.rows, 1, IF Len(df.rows) < n THEN Len(df.rows) ELSE n))

\* frame with its submission_time column replaced by pd.to_datetime(column,
\* errors='coerce')
coerce_time(df) ==
    DataFrame(df.columns,
              [i \in 1..Len(df.rows) |->
                  [df.rows[i] EXCEPT !["submission_time"] = to_datetime(@)]])

\* line 81 on the frames in scope with the assignment made to the historical
\* table, of which recent_trends is then a slice
assign_submission_time_inplace(env) ==
    [historical_df |-> coerce_time(env.historical_df),
     recent_trends |-> coerce_time(env.recent_trends)]

\* line 81 on the frames in scope: recent_trends['submission_time'] = ...
assign_submission_time(env) ==
    [env EXCEPT !.recent_trends = coerce_time(env.recent_trends)]

\* groupby('topic').agg({accuracy, difficulty, score: 'mean'}).reset_index()
topic_agg(df) ==
    LET keys == GroupKeys(df)
    IN  DataFrame({"topic", "accuracy", "difficulty", "score"},
            [k \in 1..Len(keys) |->
                [index      |-> k - 1,
                 topic      |-> keys[k],
                 accuracy   |-> Mean(GroupValues(df, keys[k], "accuracy")),
                 difficulty |-> Mean(GroupValues(df, keys[k], "difficulty")),
                 score      |-> Mean(GroupValues(df, keys[k], "score"))]])

\* analyze_performance_data: what it returns, what it prints, whether it
\* raises, and the historical table as the call leaves it
analyze_performance_data(cur, hist) ==
    IF ~(required_cols \subseteq hist.columns)
    THEN [raised |-> "", log |-> <<"Missing columns in historical data">>,
          topic_stats |-> EmptyFrame, recent_trends |-> EmptyFrame,
          historical_df |-> hist]
    ELSE IF ~({"topic", "accuracy", "difficulty", "score", "submission_time"}
                  \subseteq hist.columns)
    THEN [raised |-> "KeyError", log |-> <<>>,
          topic_stats |-> EmptyFrame, recent_trends |-> EmptyFrame,
          historical_df |-> hist]
    ELSE LET env == assign_submission_time(
                        [historical_df |-> hist,
                         recent_trends |-> head(sort_values(hist), HeadRows)])
         IN  [raised |-> "", log |-> <<>>,
              topic_stats |-> topic_agg(hist),
              recent_trends |-> env.recent_trends,
              historical_df |-> env.historical_df]

(***************************************************************************)
(* Step 3: generate_insight_details and identify_student_persona.          *)
(***************************************************************************)
\* the weak-topic threshold 0.6
WeakThreshold == Rat(6, 10)

\* df[mask]: the rows whose mask is true, in order, labels kept
Mask(df, mask) ==
    LET idx  == [i \in 1..Len(df.rows) |-> i]
        kept == SelectSeq(idx, LAMBDA i : mask[i])
    IN  DataFrame(df.columns, [j \in 1..Len(kept) |-> df.rows[kept[j]]])

\* Series.diff(): each value minus the one before it, NaN for the first
diff(s) == [i \in 1..Len(s) |-> IF i = 1 THEN NaN ELSE Sub(s[i], s[i - 1])]

\* the weak rows with the threshold itself counted as weak (<= 0.6)
WeakRows_inclusive(ts) ==
    LET acc == Column(ts, "accuracy")
    IN  Mask(ts, [i \in 1..Len(acc) |-> Lt(acc[i], WeakThreshold) \/ acc[i] = WeakThreshold])

\* topic_stats[topic_stats['accuracy'] < 0.6]
WeakRows(ts) ==
    LET acc == Column(ts, "accuracy")
    IN  Mask(ts, [i \in 1..Len(acc) |-> Lt(acc[i], WeakThreshold)])

\* the improved rows with an unchanged accuracy counted (diff() >= 0)
ImprovedRows_inclusive(rt) ==
    LET d == diff(Column(rt, "accuracy"))
    IN  Mask(rt, [i \in 1..Len(d) |-> Gt(d[i], Zero) \/ d[i] = Zero])

\* recent_trends[recent_trends['accuracy'].diff() > 0]
ImprovedRows(rt) ==
    LET d == diff(Column(rt, "accuracy"))
    IN  Mask(rt, [i \in 1..Len(d) |-> Gt(d[i], Zero)])

\* generate_insight_details: frame['accuracy'] raises KeyError on a frame
\* without that column
generate_insight_details(ts, rt) ==
    IF "accuracy" \notin ts.columns \/ "accuracy" \notin rt.columns
    THEN [raised |-> "KeyError", weak_topics |-> EmptyFrame,
          improvement_trends |-> EmptyFrame]
    ELSE [raised |-> "", weak_topics |-> WeakRows(ts),
          improvement_trends |-> ImprovedRows(rt)]

\* the label idxmin and idxmax give for a series whose values are all NaN
NaNLabel == "nan"

\* Series.idxmin(): the label of the first smallest value, NaN skipped
idxmin(labels, values) ==
    LET ok == {i \in 1..Len(values) : notna(values[i])}
    IN  IF ok = {} THEN NaNLabel
        ELSE labels[CHOOSE i \in ok :
                        /\ \A j \in ok : ~Lt(values[j], values[i])
                        /\ \A j \in ok : j < i => Lt(values[i], values[j])]

\* Series.idxmax(): the label of the first largest value, NaN skipped
idxmax(labels, values) ==
    LET ok == {i \in 1..Len(values) : notna(values[i])}
    IN  IF ok = {} THEN NaNLabel
        ELSE labels[CHOOSE i \in ok :
                        /\ \A j \in ok : ~Gt(values[j], values[i])
                        /\ \A j \in ok : j < i => Gt(values[i], values[j])]

PersonaDict(consistent, top) ==
    [is_dict |-> TRUE, text |-> "", consistent |-> consistent, top |-> top]
PersonaStr(text) ==
    [is_dict |-> FALSE, text |-> text, consistent |-> "", top |-> ""]

INSUFFICIENT == "Insufficient data to analyze student persona."

\* the guard with the column test inverted
PersonaGuard_inverted(hist) == empty(hist) \/ "accuracy" \in hist.columns

\* the guard of identify_student_persona
PersonaGuard(hist) == empty(hist) \/ "accuracy" \notin hist.columns

\* identify_student_persona: groupby('topic') raises KeyError without the
\* column, idxmin raises ValueError on a series of no groups
identify_student_persona(hist) ==
    IF PersonaGuard(hist)
    THEN [raised |-> "", value |-> PersonaStr(INSUFFICIENT)]
    ELSE IF "topic" \notin hist.columns
    THEN [raised |-> "KeyError", value |-> PersonaStr("")]
    ELSE LET keys == GroupKeys(hist)
             std  == [k \in 1..Len(keys) |-> Var(GroupValues(hist, keys[k], "accuracy"))]
             mean == [k \in 1..Len(keys) |-> Mean(GroupValues(hist, keys[k], "accuracy"))]
         IN  IF keys = <<>>
             THEN [raised |-> "ValueError", value |-> PersonaStr("")]
             ELSE [raised |-> "",
                   value |-> PersonaDict(idxmin(keys, std), idxmax(keys, mean))]

(***************************************************************************)
(* Step 5: generate_recommendations.                                       *)
(***************************************************************************)
ENCOURAGEMENT == "No weak topics identified. Keep up the good work!"
FALLBACK == "Unable to analyze persona due to insufficient data."

FocusLine(row) ==
    "Focus on the topic '" \o row["topic"] \o "' with an accuracy of "
        \o Format2f(row["accuracy"]) \o "."
StrengthLine(p) == "Leverage your strength in '" \o p.top \o "' to build confidence."
ConsistencyLine(p) == "Maintain consistency in '" \o p.consistent \o "'."

\* the lines for the weak topics
WeakLines(weak) ==
    IF empty(weak) THEN <<ENCOURAGEMENT>>
    ELSE [i \in 1..Len(weak.rows) |-> FocusLine(weak.rows[i])]

\* the persona lines with the two references in the other order
PersonaLines_swapped(p) ==
    IF p.is_dict THEN <<ConsistencyLine(p), StrengthLine(p)>>
    ELSE <<FALLBACK>>

\* the lines for the persona
PersonaLines(p) ==
    IF p.is_dict THEN <<StrengthLine(p), ConsistencyLine(p)>>
    ELSE <<FALLBACK>>

generate_recommendations(weak, p) == WeakLines(weak) \o PersonaLines(p)

(***************************************************************************)
(* The documents the endpoint may serve.                                   *)
(***************************************************************************)
AccuracyValues == {Tenths(3), Tenths(9), NaN}
TopicValues == Topics \cup {None}
RunTimes == {"2024-1-10", "2024-1-9"}
One == Rat(1, 1)

\* a submission record with the keys cols
Submission(cols, t, a, tm) ==
    [c \in cols |->
        CASE c = "topic"      -> t
          [] c = "accuracy"   -> a
          [] c = "difficulty" -> One
          [] c = "score"      -> One
          [] OTHER            -> tm]

Submissions(cols, times) ==
    {Submission(cols, t, a, tm) : t \in TopicValues, a \in AccuracyValues, tm \in times}

\* the key sets of the served records: all five fields, or all but one
ColumnSets == {required_cols} \cup {required_cols \ {c} : c \in required_cols}

\* an accuracy column holds at least one number: pandas reads a column of
\* nulls alone as objects, not as floats
NumericAccuracy(l) ==
    \A i \in 1..Len(l) : "accuracy" \in DOMAIN l[i] =>
        \E j \in 1..Len(l) : notna(l[j]["accuracy"])

HistoryLists ==
    UNION {{l \in [1..n -> Submissions(cols, RunTimes)] : NumericAccuracy(l)} :
              n \in 0..MaxRows, cols \in ColumnSets}

CurrentLists == {<<>>, <<[quiz_id |-> 1]>>}

Absent == [present |-> FALSE, value |-> <<>>]
Present(v) == [present |-> TRUE, value |-> v]

\* the JSON document with the given values under the two expected keys
Document(cur, hist) ==
    [k \in (IF cur.present THEN {CURRENT_KEY} ELSE {})
           \cup (IF hist.present THEN {HISTORICAL_KEY} ELSE {}) |->
        IF k = CURRENT_KEY THEN cur.value ELSE hist.value]

\* Every value of quiz_history with a valid quiz_submissions, and every shape
\* of quiz_submissions with a few values of quiz_history.
Documents ==
    {Document(Present(<<[quiz_id |-> 1]>>), h) :
        h \in {Absent} \cup {Present(l) : l \in HistoryLists}}
    \cup {Document(c, h) :
            c \in {Absent} \cup {Present(l) : l \in CurrentLists},
            h \in {Absent, Present(<<>>),
                   Present(<<Submission(required_cols, "A", Tenths(3), "2024-1-9")>>)}}

(***************************************************************************)
(* The module-level run.                                                   *)
(***************************************************************************)
NoPersona == PersonaStr("")

Init ==
    /\ pc = "fetch_current"
    /\ exception = ""
    /\ remote \in Documents
    /\ current_quiz_data = NoneData
    /\ historical_quiz_data = NoneData
    /\ current_df = EmptyFrame
    /\ historical_df = EmptyFrame
    /\ topic_stats = EmptyFrame
    /\ recent_trends = EmptyFrame
    /\ weak_topics = EmptyFrame
    /\ improvement_trends = EmptyFrame
    /\ student_persona = NoPersona
    /\ recommendations = <<>>
    /\ log = <<>>
    /\ executed = <<>>

\* an uncaught exception ends the run with a traceback
Crash(e) ==
    /\ pc' = "crashed"
    /\ exception' = e

\* line 41
FetchCurrent ==
    /\ pc = "fetch_current"
    /\ \E ok \in BOOLEAN :
          LET r == fetch_quiz_data(remote, ok)
          IN  /\ current_quiz_data' = r.value
              /\ log' = log \o r.log
    /\ executed' = Append(executed, "fetch_quiz_data")
    /\ pc' = "fetch_historical"
    /\ UNCHANGED <<exception, remote, historical_quiz_data, current_df,
                   historical_df, topic_stats, recent_trends, weak_topics,
                   improvement_trends, student_persona, recommendations>>

\* lines 42-46
FetchHistorical ==
    /\ pc = "fetch_historical"
    /\ \E ok \in BOOLEAN :
          LET r == fetch_quiz_data(remote, ok)
          IN  /\ historical_quiz_data' = r.value
              /\ log' = log \o r.log \o <<"Debug: Current Quiz Data:",
                                         "Debug: Historical Quiz Data:">>
    /\ executed' = Append(executed, "fetch_quiz_data")
    /\ pc' = "validate_current"
    /\ UNCHANGED <<exception, remote, current_quiz_data, current_df,
                   historical_df, topic_stats, recent_trends, weak_topics,
                   improvement_trends, student_persona, recommendations>>

\* line 49
ValidateCurrent ==
    /\ pc = "validate_current"
    /\ LET r == validate_quiz_data(current_quiz_data, <<CURRENT_KEY>>)
       IN  /\ log' = log \o r.log
           /\ IF r.raised # "" THEN Crash(r.raised)
              ELSE pc' = "validate_historical" /\ UNCHANGED exception
    /\ executed' = Append(executed, "validate_quiz_data")
    /\ UNCHANGED <<remote, current_quiz_data, historical_quiz_data, current_df,
                   historical_df, topic_stats, recent_trends, weak_topics,
                   improvement_trends, student_persona, recommendations>>

\* line 50
ValidateHistorical ==
    /\ pc = "validate_historical"
    /\ LET r == validate_quiz_data(historical_quiz_data, <<HISTORICAL_KEY>>)
       IN  /\ log' = log \o r.log
           /\ IF r.raised # "" THEN Crash(r.raised)
              ELSE pc' = "load" /\ UNCHANGED exception
    /\ executed' = Append(executed, "validate_quiz_data")
    /\ UNCHANGED <<remote, current_quiz_data, historical_quiz_data, current_df,
                   historical_df, topic_stats, recent_trends, weak_topics,
                   improvement_trends, student_persona, recommendations>>

\* lines 53-54
Load ==
    /\ pc = "load"
    /\ LET c == LoadFrame(current_quiz_data, CURRENT_KEY)
           h == LoadFrame(historical_quiz_data, HISTORICAL_KEY)
       IN  IF c.raised # ""
           THEN Crash(c.raised) /\ UNCHANGED <<current_df, historical_df>>
           ELSE IF h.raised # ""
           THEN Crash(h.raised) /\ current_df' = c.frame /\ UNCHANGED historical_df
           ELSE /\ current_df' = c.frame
                /\ historical_df' = h.frame
                /\ pc' = "guard_datasets"
                /\ UNCHANGED exception
    /\ executed' = Append(executed, "load")
    /\ UNCHANGED <<remote, current_quiz_data, historical_quiz_data,
                   topic_stats, recent_trends, weak_topics,
                   improvement_trends, student_persona, recommendations, log>>

\* the condition of line 57
DatasetsEmpty(c, h) == empty(c) \/ empty(h)

\* lines 57-59
GuardDatasets ==
    /\ pc = "guard_datasets"
    /\ IF DatasetsEmpty(current_df, historical_df)
       THEN /\ log' = Append(log, "Error: One or both datasets are empty. Exiting the program.")
            /\ pc' = "exited"
       ELSE /\ pc' = "analyze"
            /\ UNCHANGED log
    /\ UNCHANGED <<exception, remote, current_quiz_data, historical_quiz_data,
                   current_df, historical_df, topic_stats, recent_trends,
                   weak_topics, improvement_trends, student_persona,
                   recommendations, executed>>

\* line 86
Analyze ==
    /\ pc = "analyze"
    /\ LET r == analyze_performance_data(current_df, historical_df)
       IN  /\ historical_df' = r.historical_df
           /\ log' = log \o r.log
           /\ IF r.raised # ""
              THEN Crash(r.raised) /\ UNCHANGED <<topic_stats, recent_trends>>
              ELSE /\ topic_stats' = r.topic_stats
                   /\ recent_trends' = r.recent_trends
                   /\ pc' = "guard_stats"
                   /\ UNCHANGED exception
    /\ executed' = Append(executed, "analyze_performance_data")
    /\ UNCHANGED <<remote, current_quiz_data, historical_quiz_data, current_df,
                   weak_topics, improvement_trends, student_persona,
                   recommendations>>

\* the condition of line 89
StatsEmpty(ts) == empty(ts)

\* lines 89-91
GuardStats ==
    /\ pc = "guard_stats"
    /\ IF StatsEmpty(topic_stats)
       THEN /\ log' = Append(log, "No data available for topic performance analysis.")
            /\ pc' = "exited"
       ELSE /\ pc' = "insight"
            /\ UNCHANGED log
    /\ UNCHANGED <<exception, remote, current_quiz_data, historical_quiz_data,
                   current_df, historical_df, topic_stats, recent_trends,
                   weak_topics, improvement_trends, student_persona,
                   recommendations, executed>>

\* line 123
GenerateInsights ==
    /\ pc = "insight"
    /\ LET r == generate_insight_details(topic_stats, recent_trends)
       IN  IF r.raised # ""
           THEN Crash(r.raised) /\ UNCHANGED <<weak_topics, improvement_trends>>
           ELSE /\ weak_topics' = r.weak_topics
                /\ improvement_trends' = r.improvement_trends
                /\ pc' = "persona"
                /\ UNCHANGED exception
    /\ executed' = Append(executed, "generate_insight_details")
    /\ UNCHANGED <<remote, current_quiz_data, historical_quiz_data, current_df,
                   historical_df, topic_stats, recent_trends, student_persona,
                   recommendations, log>>

\* line 124
IdentifyPersona ==
    /\ pc = "persona"
    /\ LET r == identify_student_persona(historical_df)
       IN  IF r.raised # ""
           THEN Crash(r.raised) /\ UNCHANGED student_persona
           ELSE /\ student_persona' = r.value
                /\ pc' = "plot"
                /\ UNCHANGED exception
    /\ executed' = Append(executed, "identify_student_persona")
    /\ UNCHANGED <<remote, current_quiz_data, historical_quiz_data, current_df,
                   historical_df, topic_stats, recent_trends, weak_topics,
                   improvement_trends, recommendations, log>>

\* line 147: the charts are drawn from topic_stats and recent_trends, which
\* plot_performance_data only reads
Plot ==
    /\ pc = "plot"
    /\ pc' = "recommend"
    /\ executed' = Append(executed, "plot_performance_data")
    /\ UNCHANGED <<exception, remote, current_quiz_data, historical_quiz_data,
                   current_df, historical_df, topic_stats, recent_trends,
                   weak_topics, improvement_trends, student_persona,
                   recommendations, log>>

\* line 173
Recommend ==
    /\ pc = "recommend"
    /\ recommendations' = generate_recommendations(weak_topics, student_persona)
    /\ pc' = "print"
    /\ executed' = Append(executed, "generate_recommendations")
    /\ UNCHANGED <<exception, remote, current_quiz_data, historical_quiz_data,
                   current_df, historical_df, topic_stats, recent_trends,
                   weak_topics, improvement_trends, student_persona, log>>

\* lines 176-178
PrintRecommendations ==
    /\ pc = "print"
    /\ log' = log \o <<"Personalized Recommendations:">>
                  \o [i \in 1..Len(recommendations) |-> "- " \o recommendations[i]]
    /\ pc' = "done"
    /\ UNCHANGED <<exception, remote, current_quiz_data, historical_quiz_data,
                   current_df, historical_df, topic_stats, recent_trends,
                   weak_topics, improvement_trends, student_persona,
                   recommendations, executed>>

Next ==
    \/ FetchCurrent
    \/ FetchHistorical
    \/ ValidateCurrent
    \/ ValidateHistorical
    \/ Load
    \/ GuardDatasets
    \/ Analyze
    \/ GuardStats
    \/ GenerateInsights
    \/ IdentifyPersona
    \/ Plot
    \/ Recommend
    \/ PrintRecommendations

Spec == Init /\ [][Next]_vars

(***************************************************************************)
(* analyze_performance_data on its own: every historical table of up to    *)
(* MaxTrendRows complete records, which differ in their submission_time.   *)
(***************************************************************************)
TrendTimes == TimeStrings \cup {None}

TrendLists ==
    UNION {[1..n -> {Submission(required_cols, "A", Tenths(3), tm) : tm \in TrendTimes}] :
              n \in 1..MaxTrendRows}

InitTrend ==
    /\ pc = "analyze"
    /\ exception = ""
    /\ remote = <<>>
    /\ current_quiz_data = NoneData
    /\ historical_quiz_data = NoneData
    /\ current_df = FrameOfRecords(<<[quiz_id |-> 1]>>)
    /\ historical_df \in {FrameOfRecords(l) : l \in TrendLists}
    /\ topic_stats = EmptyFrame
    /\ recent_trends = EmptyFrame
    /\ weak_topics = EmptyFrame
    /\ improvement_trends = EmptyFrame
    /\ student_persona = NoPersona
    /\ recommendations = <<>>
    /\ log = <<>>
    /\ executed = <<>>

NextTrend == Analyze

SpecTrend == InitTrend /\ [][NextTrend]_vars

(***************************************************************************)
(* generate_insight_details on its own: topic statistics in any row order  *)
(* and trend windows of up to HeadRows rows.                               *)
(***************************************************************************)
StatMeans == {Tenths(4), Rat(59, 100), Tenths(6), Tenths(9), NaN}
WindowAccuracies == {Tenths(2), Tenths(3), Tenths(5), Tenths(9), NaN}

StatsRow(i, t, a) ==
    [index |-> i - 1, topic |-> t, accuracy |-> a, difficulty |-> One, score |-> One]

\* topic statistics: one row for each topic of a sequence of distinct topics
StatsFrames ==
    {DataFrame({"topic", "accuracy", "difficulty", "score"},
               [i \in 1..Len(ts) |-> StatsRow(i, ts[i], m[i])]) :
        ts \in {<<>>, <<"A">>, <<"B">>, <<"A", "B">>, <<"B", "A">>},
        m \in [1..Len(TopicSeq) -> StatMeans]}

WindowRow(i, a) ==
    [index |-> i - 1, topic |-> "A", accuracy |-> a, difficulty |-> One,
     score |-> One, submission_time |-> NaT]

WindowFrames ==
    {DataFrame(required_cols, [i \in 1..n |-> WindowRow(i, acc[i])]) :
        n \in 0..HeadRows, acc \in [1..HeadRows -> WindowAccuracies]}

InitInsight ==
    /\ pc = "insight"
    /\ exception = ""
    /\ remote = <<>>
    /\ current_quiz_data = NoneData
    /\ historical_quiz_data = NoneData
    /\ current_df = EmptyFrame
    /\ historical_df = EmptyFrame
    /\ \/ /\ topic_stats \in StatsFrames
          /\ recent_trends = DataFrame(required_cols, <<>>)
       \/ /\ topic_stats = DataFrame({"topic", "accuracy", "difficulty", "score"},
                                     <<StatsRow(1, "A", Tenths(9))>>)
          /\ recent_trends \in WindowFrames
    /\ weak_topics = EmptyFrame
    /\ improvement_trends = EmptyFrame
    /\ student_persona = NoPersona
    /\ recommendations = <<>>
    /\ log = <<>>
    /\ executed = <<>>

NextInsight == GenerateInsights

SpecInsight == InitInsight /\ [][NextInsight]_vars

(***************************************************************************)
(* generate_recommendations on its own: weak-topic tables of up to MaxWeak *)
(* rows and every persona, the sentinel included.                          *)
(***************************************************************************)
WeakAccuracies == {Tenths(3), Rat(45, 100), NaN}

WeakFrames ==
    {EmptyFrame} \cup
    UNION {{DataFrame({"topic", "accuracy", "difficulty", "score"},
                      [i \in 1..n |-> StatsRow(i, f[i][1], f[i][2])]) :
               f \in [1..n -> Topics \X WeakAccuracies]} : n \in 0..MaxWeak}

Personas ==
    {PersonaStr(INSUFFICIENT)} \cup
    {PersonaDict(c, t) : c \in Topics \cup {NaNLabel}, t \in Topics \cup {NaNLabel}}

InitRecommend ==
    /\ pc = "recommend"
    /\ exception = ""
    /\ remote = <<>>
    /\ current_quiz_data = NoneData
    /\ historical_quiz_data = NoneData
    /\ current_df = EmptyFrame
    /\ historical_df = EmptyFrame
    /\ topic_stats = EmptyFrame
    /\ recent_trends = EmptyFrame
    /\ weak_topics \in WeakFrames
    /\ improvement_trends = EmptyFrame
    /\ student_persona \in Personas
    /\ recommendations = <<>>
    /\ log = <<>>
    /\ executed = <<>>

NextRecommend == Recommend

SpecRecommend == InitRecommend /\ [][NextRecommend]_vars

(***************************************************************************)
(* The claims.                                                             *)
(***************************************************************************)
Called(f) == \E i \in 1..Len(executed) : executed[i] = f
LastCalled == IF executed = <<>> THEN "" ELSE executed[Len(executed)]
FiveColumns == {"topic", "accuracy", "difficulty", "score", "submission_time"}
Min(a, b) == IF a < b THEN a ELSE b
Max(a, b) == IF a < b THEN b ELSE a

\* C1: validation is advisory.  Whatever the two fetches returned (a document
\* with the expected key valid, missing or empty, or None after a failed
\* fetch), validate_quiz_data only prints and never ends the run, the run
\* goes on to the loader, and there a missing or empty key gives an empty
\* table.
C1_ValidationAdvisory ==
    /\ LastCalled = "validate_quiz_data" => pc # "crashed"
    /\ Called("validate_quiz_data") /\ pc = "crashed" => Called("load")
    /\ pc = "guard_datasets" =>
          /\ (CURRENT_KEY \notin DOMAIN current_quiz_data.body => empty(current_df))
          /\ (HISTORICAL_KEY \notin DOMAIN historical_quiz_data.body => empty(historical_df))

\* C2: when analyze_performance_data is called on a historical table that
\* lacks one of the five columns it returns two empty frames and raises
\* nothing, and the run stops at the next guard: generate_insight_details and
\* identify_student_persona are never executed.
C2_MissingColumns ==
    (Called("analyze_performance_data") /\ ~(FiveColumns \subseteq historical_df.columns)) =>
        /\ pc \in {"guard_stats", "exited"}
        /\ exception = ""
        /\ topic_stats = EmptyFrame
        /\ recent_trends = EmptyFrame
        /\ ~Called("generate_insight_details")
        /\ ~Called("identify_student_persona")

C2_Witness ==
    /\ pc = "exited"
    /\ Called("analyze_performance_data")
    /\ Len(historical_df.rows) > 0
    /\ "score" \notin historical_df.columns
    /\ log[Len(log)] = "No data available for topic performance analysis."

\* the order of the stages alone: the analyzer runs only on two tables that
\* are not empty, the later stages only on topic statistics that are not
\* empty
StagesInOrder ==
    /\ Called("analyze_performance_data") => ~empty(current_df) /\ ~empty(historical_df)
    /\ (\E f \in {"generate_insight_details", "identify_student_persona",
                  "plot_performance_data", "generate_recommendations"} : Called(f))
          => ~empty(topic_stats)

\* C3: the analyzer runs only if both loaded tables are not empty, the
\* insight, persona, presentation and recommendation stages only if the
\* topic statistics are not empty, and every other run ends at one of the two
\* guards with its message printed: an exit, never a crash.
C3_StageOrdering ==
    /\ StagesInOrder
    /\ pc # "crashed"
    /\ pc = "exited" =>
          log[Len(log)] \in {"Error: One or both datasets are empty. Exiting the program.",
                             "No data available for topic performance analysis."}

\* C4: the list generate_recommendations returns is the encouragement string
\* (no weak topic) or one line per weak-topic row in row order, followed by
\* the 'Top Performing Topic' line and then the 'Consistent Topic' line for a
\* structured persona, or by the fallback string alone for the sentinel; its
\* length is max(1, weak topics) + 2, or + 1 for the sentinel.
C4_Recommendations ==
    pc = "print" =>
        LET n == Len(weak_topics.rows)
            m == Max(1, n)
            r == recommendations
        IN  /\ Len(r) = m + (IF student_persona.is_dict THEN 2 ELSE 1)
            /\ n = 0 => r[1] = ENCOURAGEMENT
            /\ \A i \in 1..n :
                  r[i] = "Focus on the topic '" \o weak_topics.rows[i]["topic"]
                           \o "' with an accuracy of "
                           \o Format2f(weak_topics.rows[i]["accuracy"]) \o "."
            /\ student_persona.is_dict =>
                  /\ r[m + 1] = "Leverage your strength in '" \o student_persona.top
                                   \o "' to build confidence."
                  /\ r[m + 2] = "Maintain consistency in '" \o student_persona.consistent \o "'."
            /\ ~student_persona.is_dict => r[m + 1] = FALLBACK

C4_Witness ==
    /\ pc = "print"
    /\ ~student_persona.is_dict
    /\ Len(weak_topics.rows) = 2
    /\ weak_topics.rows[1]["topic"] = "B"
    /\ weak_topics.rows[2]["topic"] = "A"
    /\ recommendations = <<"Focus on the topic 'B' with an accuracy of 0.45.",
                           "Focus on the topic 'A' with an accuracy of 0.30.",
                           FALLBACK>>

\* C5: the weak topics are exactly the rows of the topic statistics whose
\* mean accuracy is strictly below 0.6, in the order of that table: a mean of
\* exactly 0.6 or more (or NaN) is never weak, a mean below 0.6 always is.
C5_WeakTopics ==
    (pc = "persona" /\ exception = "") =>
        LET ts == topic_stats.rows
            w  == weak_topics.rows
            below(r) == r["accuracy"].den > 0
                        /\ 10 * r["accuracy"].num < 6 * r["accuracy"].den
            pos(r) == CHOOSE i \in 1..Len(ts) : ts[i] = r
        IN  /\ weak_topics.columns = topic_stats.columns
            /\ \A i \in 1..Len(w) : \E j \in 1..Len(ts) : ts[j] = w[i]
            /\ \A j \in 1..Len(ts) : below(ts[j]) <=> (\E i \in 1..Len(w) : w[i] = ts[j])
            /\ \A i, j \in 1..Len(w) : i < j => pos(w[i]) < pos(w[j])

C5_Witness ==
    /\ pc = "persona"
    /\ Len(topic_stats.rows) = 2
    /\ topic_stats.rows[1]["topic"] = "B"
    /\ topic_stats.rows[1]["accuracy"] = Tenths(6)
    /\ topic_stats.rows[2]["accuracy"] = Rat(59, 100)
    /\ Len(weak_topics.rows) = 1
    /\ weak_topics.rows[1]["topic"] = "A"

\* C6: the improvement events are exactly the rows of the trend window at
\* positions 2..N whose accuracy is strictly greater than that of the row
\* before them, in window order; the first row never qualifies, equal
\* accuracies do not, and a window of 0 or 1 rows gives none.
C6_ImprovementEvents ==
    (pc = "persona" /\ exception = "") =>
        LET rt == recent_trends.rows
            im == improvement_trends.rows
            up == {i \in 2..Len(rt) :
                      /\ rt[i]["accuracy"].den > 0
                      /\ rt[i - 1]["accuracy"].den > 0
                      /\ rt[i]["accuracy"].num * rt[i - 1]["accuracy"].den
                            > rt[i - 1]["accuracy"].num * rt[i]["accuracy"].den}
            pos(r) == CHOOSE i \in 1..Len(rt) : rt[i] = r
        IN  /\ Len(im) = Cardinality(up)
            /\ \A i \in up : \E k \in 1..Len(im) : im[k] = rt[i]
            /\ \A k \in 1..Len(im) : \E i \in up : im[k] = rt[i]
            /\ \A k, l \in 1..Len(im) : k < l => pos(im[k]) < pos(im[l])
            /\ Len(rt) <= 1 => im = <<>>

C6_Witness ==
    /\ pc = "persona"
    /\ Column(recent_trends, "accuracy")
          = <<Tenths(2), Tenths(5), Tenths(3), Tenths(3), Tenths(9)>>
    /\ Column(improvement_trends, "index") = <<1, 4>>

\* the historical row a window row was taken from
Origin(w) == historical_df.rows[w["index"] + 1]

\* the window has min(5, n) rows
TrendLength ==
    pc = "guard_stats" =>
        Len(recent_trends.rows) = Min(5, Len(historical_df.rows))

\* the window rows are distinct rows of the table, each with its
\* submission_time parsed, NaT when it cannot be parsed
TrendRowsKept ==
    pc = "guard_stats" =>
        LET w == recent_trends.rows
        IN  /\ \A i, j \in 1..Len(w) : i # j => w[i]["index"] # w[j]["index"]
            /\ \A i \in 1..Len(w) :
                  /\ w[i]["index"] \in 0..(Len(historical_df.rows) - 1)
                  /\ w[i] = [Origin(w[i]) EXCEPT !["submission_time"] = to_datetime(@)]

\* rows with the same submission_time keep their original order
TrendStable ==
    pc = "guard_stats" =>
        LET w == recent_trends.rows
        IN  \A i, j \in 1..Len(w) :
               (i < j /\ Origin(w[i])["submission_time"] = Origin(w[j])["submission_time"])
                  => w[i]["index"] < w[j]["index"]

\* the window is the start of the table ordered by the submission_time
\* values as loaded, greatest first, nulls last
TrendSortedRaw ==
    pc = "guard_stats" =>
        LET w == recent_trends.rows
            h == historical_df.rows
            raw(r) == Origin(r)["submission_time"]
            above(x, y) == x # None /\ (y = None \/ StrRank(x) >= StrRank(y))
        IN  /\ \A i, j \in 1..Len(w) :
                  i < j => (above(raw(w[i]), raw(w[j])) \/ raw(w[i]) = raw(w[j]))
            /\ \A i \in 1..Len(w), k \in 1..Len(h) :
                  (\A j \in 1..Len(w) : w[j]["index"] # h[k]["index"])
                     => (above(raw(w[i]), h[k]["submission_time"])
                         \/ raw(w[i]) = h[k]["submission_time"])

\* no record left out of the window was submitted after a record in it
TrendMostRecent ==
    pc = "guard_stats" =>
        LET w == recent_trends.rows
            h == historical_df.rows
        IN  \A i \in 1..Len(w), k \in 1..Len(h) :
               ((\A j \in 1..Len(w) : w[j]["index"] # h[k]["index"])
                 /\ Valid(w[i]["submission_time"])
                 /\ Valid(to_datetime(h[k]["submission_time"])))
                  => Day(to_datetime(h[k]["submission_time"])) <= Day(w[i]["submission_time"])

\* C7: for a historical table of n complete records the trend window has
\* min(5, n) rows and is the start of the table sorted by submission_time
\* descending, equal times in original order: the 5 most recently submitted
\* records.  A submission_time that cannot be parsed becomes a null timestamp
\* and neither aborts the analysis nor removes the row.
C7_TrendWindow ==
    /\ pc # "crashed"
    /\ TrendLength
    /\ TrendRowsKept
    /\ TrendSortedRaw
    /\ TrendStable
    /\ TrendMostRecent

\* the topics of the historical table that have a defined deviation
Deviating == {t \in Topics : notna(Var(GroupValues(historical_df, t, "accuracy")))}
\* the topics of the historical table that have a defined mean
Averaged == {t \in Topics : notna(Mean(GroupValues(historical_df, t, "accuracy")))}

\* C8: on a historical table that is not empty and has an accuracy column,
\* identify_student_persona returns a structured result; its 'Consistent
\* Topic' is the first topic in group order with the least deviation of
\* accuracy (topics with an undefined deviation left out) and its 'Top
\* Performing Topic' the first topic in group order with the greatest mean.
C8_Persona ==
    (Called("identify_student_persona")
       /\ ~empty(historical_df) /\ "accuracy" \in historical_df.columns) =>
        LET p == student_persona
            v(t) == Var(GroupValues(historical_df, t, "accuracy"))
            m(t) == Mean(GroupValues(historical_df, t, "accuracy"))
        IN  /\ pc # "crashed"
            /\ p.is_dict
            /\ p.consistent \in Deviating
            /\ \A t \in Deviating : ~Lt(v(t), v(p.consistent))
            /\ \A t \in Deviating :
                  TopicRank(t) < TopicRank(p.consistent) => Lt(v(p.consistent), v(t))
            /\ p.top \in Averaged
            /\ \A t \in Averaged : ~Gt(m(t), m(p.top))
            /\ \A t \in Averaged :
                  TopicRank(t) < TopicRank(p.top) => Gt(m(p.top), m(t))

\* C9: once loaded, the historical table stays as it is (rows, order, field
\* values, the raw submission_time strings) through every later stage, and
\* no stage changes a table an earlier stage returned.
C9_HistoricalUntouched ==
    [][/\ Called("load") => historical_df' = historical_df
       /\ Called("analyze_performance_data") =>
             topic_stats' = topic_stats /\ recent_trends' = recent_trends
       /\ Called("generate_insight_details") =>
             weak_topics' = weak_topics /\ improvement_trends' = improvement_trends]_vars

C9_Witness ==
    /\ pc = "done"
    /\ Len(historical_df.rows) = 2
    /\ Column(historical_df, "submission_time") = <<"2024-1-10", "2024-1-9">>
    /\ Column(recent_trends, "index") = <<1, 0>>
    /\ Column(recent_trends, "submission_time") = <<Timestamp(9), Timestamp(10)>>

\* C10: in a full run identify_student_persona is only ever called on a
\* historical table that is not empty and has an accuracy column, so the
\* persona is a structured result, the fallback string is never among the
\* recommendations or printed, and at least 3 recommendations are printed.
C10_SentinelUnreachable ==
    /\ (pc = "persona" \/ Called("identify_student_persona")) =>
          ~empty(historical_df) /\ "accuracy" \in historical_df.columns
    /\ LastCalled = "identify_student_persona" => pc # "crashed"
    /\ Called("identify_student_persona") => student_persona.is_dict
    /\ Called("generate_recommendations") =>
          /\ Len(recommendations) >= 3
          /\ \A i \in 1..Len(recommendations) : recommendations[i] # FALLBACK
    /\ \A i \in 1..Len(log) : log[i] # "- " \o FALLBACK
    /\ pc = "done" => Len(log) >= 4

C10_Witness ==
    /\ pc = "done"
    /\ student_persona.is_dict
    /\ Len(recommendations) = 3
    /\ recommendations[1] = ENCOURAGEMENT
    /\ log[Len(log)] = "- " \o recommendations[3]

====
